---- MODULE Spec2Model ----
(***************************************************************************)
(* Smart Timetable & Productivity API (src/main.py): the task and          *)
(* timeblock collections, the request handlers create_task, auto_schedule  *)
(* and recommend_next, and the pure helpers they use.                      *)
(*                                                                         *)
(* Time is counted in minutes.  An optional value (Optional[...] / a       *)
(* missing key) is a sequence: <<>> is None, <<x>> is the value x.  A      *)
(* datetime is a record [t, aware]: t the instant, aware whether it        *)
(* carries a tzinfo (Python refuses to order or subtract an aware and a    *)
(* naive datetime: TypeError).                                             *)
(***************************************************************************)
EXTENDS Integers, Sequences, FiniteSets, TLC

VARIABLES
    db,             \* module global db (main.py:10): TRUE when the handle is not None
    tz_aware,       \* whether the store hands datetimes back with a tzinfo
    now,            \* the wall clock, datetime.now(timezone.utc)
    task,           \* collection "task", in the order the store returns it
    timeblock,      \* collection "timeblock", in insertion order
    pc,             \* per request: "idle", "loop" (inside auto_schedule's for), "done"
    op,             \* per request: the handler serving it, "none" before it arrives
    req,            \* auto_schedule parameter req: [start, end]
    start,          \* auto_schedule local start
    end,            \* auto_schedule local end
    tasks,          \* auto_schedule local tasks (fetched, mapped, sorted)
    idx,            \* position of the for loop in tasks (1-based, next task to visit)
    cursor,         \* auto_schedule local cursor
    created_blocks, \* auto_schedule local created_blocks
    resp            \* what the handler returned or raised

vars == <<db, tz_aware, now, task, timeblock, pc, op, req, start, end, tasks, idx,
          cursor, created_blocks, resp>>

----------------------------------------------------------------------------
(* Bounds of the model *)

MaxTasks == 3       \* documents in collection "task", one request at a time
MaxConcTasks == 2   \* documents in collection "task", two requests at a time
MaxRecTasks == 4    \* documents in collection "task", recommender alone
ClockValues == {0, 90}  \* the instants at which requests arrive

Procs == {1, 2}     \* the requests of a run; each is served once
Single == {1}

None == <<>>
Some(x) == <<x>>
IsNone(o) == o = <<>>
Val(o) == o[1]

Aware(t) == [t |-> t, aware |-> TRUE]
Naive(t) == [t |-> t, aware |-> FALSE]

----------------------------------------------------------------------------
(* Utility helpers *)

\* str(ObjectId): the identifier as the text the API shows
Str(oid) == [hex |-> oid]

\* _to_doc: rename the store's _id to id, as a string
_to_doc(doc) ==
    IF "_id" \in DOMAIN doc
    THEN [k \in (DOMAIN doc \ {"_id"}) \cup {"id"} |->
             IF k = "id" THEN Str(doc["_id"]) ELSE doc[k]]
    ELSE doc

\* dict.get(key) with default None
Get(d, k) == IF k \in DOMAIN d THEN Some(d[k]) ELSE None

----------------------------------------------------------------------------
(* Record store adapter: database.create_document / database.get_documents *)

ObjectId(coll, n) == [coll |-> coll, n |-> n]

\* The store keeps a datetime as an instant; reading it back yields a datetime
\* that is aware or naive according to the client's tz_aware option.
FromStore(doc, aware) ==
    IF "deadline" \in DOMAIN doc /\ ~IsNone(doc.deadline)
    THEN [doc EXCEPT !.deadline = Some([t |-> Val(doc.deadline), aware |-> aware])]
    ELSE doc

\* a filter {field: {"$ne": value}} holds of a document whose field is not value
Matches(doc, filter) == doc[filter.field] # filter.ne

\* get_documents(collection, filter): the matching documents, in store order
get_documents(coll, filter, aware) ==
    LET Read(i) == FromStore(coll[i], aware)
        RECURSIVE Walk(_)
        Walk(i) == IF i > Len(coll) THEN <<>>
                   ELSE IF Matches(Read(i), filter) THEN <<Read(i)>> \o Walk(i + 1)
                   ELSE Walk(i + 1)
    IN Walk(1)

\* create_document(collection, data): the collection with the new record, which
\* gets a fresh _id
create_document(coll, name, data) ==
    Append(coll, [k \in DOMAIN data \cup {"_id"} |->
                    IF k = "_id" THEN ObjectId(name, Len(coll) + 1) ELSE data[k]])

\* the identifier create_document returns for that record
inserted_id(coll, name) == Str(ObjectId(name, Len(coll) + 1))

----------------------------------------------------------------------------
(* datetime arithmetic *)

\* datetime + timedelta(minutes=m)
Plus(dt, m) == [dt EXCEPT !.t = @ + m]

\* ordering or subtracting an aware and a naive datetime raises TypeError
Comparable(a, b) == a.aware = b.aware

\* datetime.max.replace(tzinfo=timezone.utc), later than every stored instant
DateTimeMax == 1000000000
DateTimeMaxUtc == Aware(DateTimeMax)

\* timedelta(hours=8), in minutes
DefaultWindow == 8 * 60

\* timedelta(minutes=5), the buffer between two blocks
Buffer == 5

----------------------------------------------------------------------------
(* auto_schedule: the pure parts *)

\* the filter on the wrong status: {"status": {"$ne": "todo"}}
NotTodo == [field |-> "status", ne |-> "todo"]

\* the filter {"status": {"$ne": "done"}}
NotDone == [field |-> "status", ne |-> "done"]

\* prio_rank.get(priority, 2)
prio_rank(p) ==
    CASE p = "urgent" -> 0
      [] p = "high"   -> 1
      [] p = "medium" -> 2
      [] p = "low"    -> 3
      [] OTHER        -> 2

\* the sort key of a task: (rank, deadline or datetime.max, estimate_minutes)
SortRank(t)     == prio_rank(t.priority)
SortDeadline(t) == IF IsNone(t.deadline) THEN DateTimeMaxUtc ELSE Val(t.deadline)
SortEstimate(t) == t.estimate_minutes

\* the deadline left out of the key
KeyLessNoDeadline(a, b) ==
    \/ SortRank(a) < SortRank(b)
    \/ /\ SortRank(a) = SortRank(b)
       /\ SortEstimate(a) < SortEstimate(b)

\* tuple comparison a < b of two sort keys (both deadlines comparable)
KeyLess(a, b) ==
    \/ SortRank(a) < SortRank(b)
    \/ /\ SortRank(a) = SortRank(b)
       /\ \/ SortDeadline(a).t < SortDeadline(b).t
          \/ /\ SortDeadline(a).t = SortDeadline(b).t
             /\ SortEstimate(a) < SortEstimate(b)

\* Comparing two keys reaches the deadlines when the ranks are equal; an aware and
\* a naive deadline are unequal and cannot be ordered.  Any sort of a list that
\* holds such a pair has to compare an aware with a naive key of that rank.
SortRaises(ts) ==
    \E i, j \in 1..Len(ts) :
        /\ SortRank(ts[i]) = SortRank(ts[j])
        /\ ~Comparable(SortDeadline(ts[i]), SortDeadline(ts[j]))

\* list.sort(key=...): stable, ascending
\* lt[i][j] tells whether item i sorts before item j; the result lists the
\* positions 1..n in sorted order, equal items in their original order
StableOrder(n, lt) ==
    LET RECURSIVE Insert(_, _)
        Insert(x, r) ==
            IF r = <<>> THEN <<x>>
            ELSE IF lt[x][Head(r)] THEN <<x>> \o r
            ELSE <<Head(r)>> \o Insert(x, Tail(r))
        RECURSIVE Sort(_)
        Sort(m) == IF m = 0 THEN <<>> ELSE Insert(m, Sort(m - 1))
    IN Sort(n)

SortTasks(ts) ==
    LET n == Len(ts)
        order == StableOrder(n, [i \in 1..n |-> [j \in 1..n |-> KeyLess(ts[i], ts[j])]])
    IN [k \in 1..n |-> ts[order[k]]]

\* "task_id": t.get("id") or str(t.get("_id")) if t.get("_id") else None
\* which Python reads as (A or B) if t.get("_id") else None
TaskIdOf(t) ==
    IF ~IsNone(Get(t, "_id"))
    THEN (IF ~IsNone(Get(t, "id")) THEN Get(t, "id") ELSE Some(Str(t["_id"])))
    ELSE None

\* the dict tb built for task t at the cursor
BlockFor(t, block_start, block_end) ==
    [task_id |-> TaskIdOf(t),
     title   |-> t.title,
     start   |-> block_start,
     end     |-> block_end,
     status  |-> "planned"]

\* TimeBlock(id=inserted_id, **tb)
TimeBlockOf(id, tb) ==
    [k \in DOMAIN tb \cup {"id"} |-> IF k = "id" THEN id ELSE tb[k]]

----------------------------------------------------------------------------
(* recommend_next: the pure parts.  Scores are counted in hundredths. *)

\* prio_weight.get(priority, 2)
prio_weight(p) ==
    CASE p = "urgent" -> 4
      [] p = "high"   -> 3
      [] p = "medium" -> 2
      [] p = "low"    -> 1
      [] OTHER        -> 2

\* urgency_bonus, from the minutes left to the deadline (4, 24 and 72 hours)
urgency_bonus(t, clock) ==
    IF IsNone(t.deadline) THEN 0
    ELSE LET left == Val(t.deadline).t - clock.t
         IN IF left < 4 * 60 THEN 3
            ELSE IF left < 24 * 60 THEN 2
            ELSE IF left < 72 * 60 THEN 1
            ELSE 0

\* round(base + urgency_bonus - max(0, (estimate - 30) / 30) * 0.2, 2) in hundredths:
\* the penalty is 2 * over / 3 hundredths, so the score is thirds / 3 rounded to the
\* nearest integer (thirds / 3 is never half-way between two integers)
Score(t, clock) ==
    LET over   == IF t.estimate_minutes - 30 > 0 THEN t.estimate_minutes - 30 ELSE 0
        thirds == 300 * (prio_weight(t.priority) + urgency_bonus(t, clock)) - 2 * over
    IN (2 * thirds + 3) \div 6

\* (deadline - now) raises TypeError for a naive deadline: now is aware
ScoreRaises(ts, clock) ==
    \E i \in 1..Len(ts) :
        ~IsNone(ts[i].deadline) /\ ~Comparable(Val(ts[i].deadline), clock)

Suggestion(t, clock) ==
    [task  |-> [id |-> Get(t, "id"), title |-> t.title,
                estimate_minutes |-> t.estimate_minutes,
                priority |-> t.priority, deadline |-> t.deadline],
     score |-> Score(t, clock)]

\* an ordering that lets a later task pass an earlier one of equal score
ScoreMoreOrEqual(a, b) == a.score >= b.score

\* suggestions.sort(key=score, reverse=True): stable, descending
ScoreMore(a, b) == a.score > b.score
SortSuggestions(ss) ==
    LET n == Len(ss)
        order == StableOrder(n, [i \in 1..n |-> [j \in 1..n |-> ScoreMore(ss[i], ss[j])]])
    IN [k \in 1..n |-> ss[order[k]]]

\* suggestions[:3]
TopN == 3
Top(ss) == SubSeq(ss, 1, IF Len(ss) < TopN THEN Len(ss) ELSE TopN)

Suggestions(ts, clock) ==
    Top(SortSuggestions([i \in 1..Len(ts) |-> Suggestion(ts[i], clock)]))

----------------------------------------------------------------------------
(* Inputs *)

\* Task documents the store may hold:
\* title, priority, deadline (minutes, or None), estimate_minutes, status
Doc(title, priority, deadline, est, status) ==
    [title |-> title, priority |-> priority, deadline |-> deadline,
     estimate_minutes |-> est, status |-> status]

TaskPool ==
    { Doc("A", "urgent", None,       60,  "todo"),
      Doc("B", "high",   Some(300),  30,  "todo"),
      Doc("C", "medium", None,       30,  "todo"),
      Doc("D", "high",   Some(600),  480, "in_progress"),
      Doc("E", "someday", None,      5,   "todo"),
      Doc("F", "urgent", Some(120),  30,  "done"),
      Doc("G", "low",    Some(3000), 45,  "todo"),
      Doc("H", "high",   None,       -10, "todo") }

\* TaskIn: what POST /tasks accepts (estimate_minutes in [5, 480]); the status is
\* set by create_task.  A title stands for one priority, deadline and estimate, and
\* the title of the finished task is not used again.
EstimateMin == 5
EstimateMax == 480
TaskInputs ==
    { [k \in DOMAIN d \ {"status"} |-> d[k]] :
        d \in { x \in TaskPool : /\ x.estimate_minutes >= EstimateMin
                                 /\ x.estimate_minutes <= EstimateMax
                                 /\ x.status # "done" } }

\* AutoScheduleRequest: start and end, each optional, aware or naive
StartInputs == { None, Some(Aware(0)) }
EndInputs   == { None, Some(Aware(50)), Some(Naive(50)) }

\* a collection "task" holding the documents ds, in that order
Stored(ds) ==
    [i \in 1..Len(ds) |->
        [k \in DOMAIN ds[i] \cup {"_id"} |->
            IF k = "_id" THEN ObjectId("task", i) ELSE ds[i][k]]]

StoresUpTo(n, pool) == { Stored(ds) : ds \in UNION { [1..m -> pool] : m \in 0..n } }

\* the documents used when two requests run at a time
ConcPool == { d \in TaskPool : d.title \in {"A", "C", "E", "F"} }

----------------------------------------------------------------------------
(* Responses *)

Ok(body)        == [kind |-> "ok", body |-> body]
\* raise HTTPException(status_code=500, detail="Database not available")
DbNotAvailable  == [kind |-> "HTTPException", status_code |-> 500,
                    detail |-> "Database not available"]
\* an exception the handler does not catch leaves it; exc names where it arose
Raises(exc)     == [kind |-> "raise", exc |-> exc]

----------------------------------------------------------------------------
(* State machine *)

Idle == [p \in Procs |-> "idle"]

Locals0 ==
    /\ start = [p \in Procs |-> None]
    /\ end = [p \in Procs |-> None]
    /\ tasks = [p \in Procs |-> <<>>]
    /\ idx = [p \in Procs |-> 0]
    /\ cursor = [p \in Procs |-> None]
    /\ created_blocks = [p \in Procs |-> <<>>]
    /\ resp = [p \in Procs |-> None]
    /\ op = [p \in Procs |-> "none"]
    /\ req = [p \in Procs |-> None]
    /\ pc = Idle

InitWith(stores, zones) ==
    /\ db \in BOOLEAN
    /\ tz_aware \in zones
    /\ now = 0
    /\ now \in ClockValues
    /\ task \in stores
    /\ timeblock = <<>>
    /\ Locals0

Init == InitWith(StoresUpTo(MaxTasks, TaskPool), BOOLEAN)
\* no document of ConcPool that is fetched has a deadline: the zone plays no part
InitConc == InitWith(StoresUpTo(MaxConcTasks, ConcPool), {TRUE})
InitRec == InitWith(StoresUpTo(MaxRecTasks, TaskPool), BOOLEAN)

\* the handler answers and leaves its locals behind
Answer(p, name, r) ==
    /\ pc' = [pc EXCEPT ![p] = "done"]
    /\ op' = [op EXCEPT ![p] = name]
    /\ resp' = [resp EXCEPT ![p] = Some(r)]

\* POST /tasks
create_task(p, in) ==
    /\ pc[p] = "idle"
    /\ IF ~db
       THEN /\ Answer(p, "create_task", DbNotAvailable)
            /\ UNCHANGED task
       ELSE /\ LET data == [k \in DOMAIN in \cup {"status"} |->
                               IF k = "status" THEN "todo" ELSE in[k]]
               IN /\ task' = create_document(task, "task", data)
                  /\ Answer(p, "create_task",
                            Ok([k \in DOMAIN data \cup {"id"} |->
                                  IF k = "id" THEN inserted_id(task, "task")
                                  ELSE data[k]]))
    /\ UNCHANGED <<db, tz_aware, now, timeblock, req, start, end, tasks, idx, cursor,
                   created_blocks>>

\* the guard left out
StoreNeverMissing == FALSE

\* the guard at the head of auto_schedule: db is None
StoreMissing == ~db

\* POST /schedule/auto, up to the for loop: the guard, the window, the fetch, the sort
auto_schedule_begin(p, req_start, req_end) ==
    /\ pc[p] = "idle"
    /\ req' = [req EXCEPT ![p] = Some([start |-> req_start, end |-> req_end])]
    /\ IF StoreMissing
       THEN /\ Answer(p, "auto_schedule", DbNotAvailable)
            /\ UNCHANGED <<start, end, tasks, idx, cursor, created_blocks>>
       ELSE LET s == IF IsNone(req_start) THEN Aware(now) ELSE Val(req_start)
                e == IF IsNone(req_end) THEN Plus(s, DefaultWindow) ELSE Val(req_end)
                got == get_documents(task, NotDone, tz_aware)
                fetched == [i \in 1..Len(got) |-> _to_doc(got[i])]
            IN /\ start' = [start EXCEPT ![p] = Some(s)]
               /\ end' = [end EXCEPT ![p] = Some(e)]
               /\ created_blocks' = [created_blocks EXCEPT ![p] = <<>>]
               /\ IF SortRaises(fetched)
                  THEN /\ Answer(p, "auto_schedule", Raises("tasks.sort"))
                       /\ tasks' = [tasks EXCEPT ![p] = fetched]
                       /\ UNCHANGED <<idx, cursor>>
                  ELSE /\ tasks' = [tasks EXCEPT ![p] = SortTasks(fetched)]
                       /\ cursor' = [cursor EXCEPT ![p] = Some(s)]
                       /\ idx' = [idx EXCEPT ![p] = 1]
                       /\ pc' = [pc EXCEPT ![p] = "loop"]
                       /\ op' = [op EXCEPT ![p] = "auto_schedule"]
                       /\ UNCHANGED resp
    /\ UNCHANGED <<db, tz_aware, now, task, timeblock>>

\* block_end of the task the loop is at
BlockEnd(p) == Plus(Val(cursor[p]), tasks[p][idx[p]].estimate_minutes)

\* the buffer allowed to spill: block_end > end + 5 minutes
OverrunsLate(block_end, window_end) == block_end.t > window_end.t + Buffer

\* if block_end > end: break
Overruns(block_end, window_end) == block_end.t > window_end.t

\* the buffer forgotten: cursor = block_end
NextCursorNoBuffer(block_end) == block_end

\* cursor = block_end + timedelta(minutes=5)
NextCursor(block_end) == Plus(block_end, Buffer)

\* an insert that skips a block already stored for the same title and interval
PersistOnce(coll, tb) ==
    IF \E j \in 1..Len(coll) : /\ coll[j].title = tb.title
                               /\ coll[j].start = tb.start
                               /\ coll[j]["end"] = tb["end"]
    THEN coll
    ELSE create_document(coll, "timeblock", tb)

\* create_document("timeblock", tb)
Persist(coll, tb) == create_document(coll, "timeblock", tb)

\* continue in place of break: the task is skipped and the loop goes on
OnOverrunSkip(p) ==
    /\ idx' = [idx EXCEPT ![p] = @ + 1]
    /\ UNCHANGED <<pc, op, resp, timeblock, cursor, created_blocks>>

\* break: the loop is left and created_blocks returned
OnOverrun(p) ==
    /\ Answer(p, "auto_schedule", Ok(created_blocks[p]))
    /\ UNCHANGED <<timeblock, idx, cursor, created_blocks>>

\* one pass of the for loop, or its end and the return
auto_schedule_step(p) ==
    /\ pc[p] = "loop"
    /\ IF idx[p] > Len(tasks[p])
       THEN /\ Answer(p, "auto_schedule", Ok(created_blocks[p]))
            /\ UNCHANGED <<timeblock, idx, cursor, created_blocks>>
       ELSE IF ~Comparable(BlockEnd(p), Val(end[p]))
       THEN /\ Answer(p, "auto_schedule", Raises("block_end > end"))
            /\ UNCHANGED <<timeblock, idx, cursor, created_blocks>>
       ELSE IF Overruns(BlockEnd(p), Val(end[p]))
       THEN OnOverrun(p)
       ELSE LET tb == BlockFor(tasks[p][idx[p]], Val(cursor[p]), BlockEnd(p))
            IN /\ timeblock' = Persist(timeblock, tb)
               /\ created_blocks' = [created_blocks EXCEPT ![p] =
                      Append(@, TimeBlockOf(inserted_id(timeblock, "timeblock"), tb))]
               /\ cursor' = [cursor EXCEPT ![p] = Some(NextCursor(BlockEnd(p)))]
               /\ idx' = [idx EXCEPT ![p] = @ + 1]
               /\ UNCHANGED <<pc, op, resp>>
    /\ UNCHANGED <<db, tz_aware, now, task, req, start, end, tasks>>

\* the exception swallowed and the blocks made so far returned
InsertFailureSwallowed(blocks) == Ok(blocks)

\* what the handler does when create_document raises inside the loop: there is no
\* try/except, the exception leaves the handler
InsertFailure(blocks) == Raises("create_document")

\* create_document raises inside the loop: nothing is caught, nothing is undone
auto_schedule_insert_fails(p) ==
    /\ pc[p] = "loop"
    /\ idx[p] <= Len(tasks[p])
    /\ Comparable(BlockEnd(p), Val(end[p]))
    /\ ~Overruns(BlockEnd(p), Val(end[p]))
    /\ Answer(p, "auto_schedule", InsertFailure(created_blocks[p]))
    /\ UNCHANGED <<db, tz_aware, now, task, timeblock, req, start, end, tasks, idx,
                   cursor, created_blocks>>

\* the guard of recommend_next: if db
StoreUsable == db

\* "if db" asks the handle for its truth value, which is the database module's to
\* give: a handle that is not None may answer True or refuse to answer (a driver's
\* database object raises NotImplementedError), so both outcomes are kept
TruthTestRaises == { FALSE, TRUE }

\* GET /recommend
recommend_next(p) ==
    /\ pc[p] = "idle"
    /\ LET clock == Aware(now)
           got == get_documents(task, NotDone, tz_aware)
           fetched == [i \in 1..Len(got) |-> _to_doc(got[i])]
       IN IF ~StoreUsable
          THEN Answer(p, "recommend_next", Ok([now |-> clock, suggestions |-> <<>>]))
          ELSE \E refused \in TruthTestRaises :
                 IF refused
                 THEN Answer(p, "recommend_next", Raises("if db"))
                 ELSE IF ScoreRaises(fetched, clock)
                 THEN Answer(p, "recommend_next", Raises("deadline - now"))
                 ELSE Answer(p, "recommend_next",
                             Ok([now |-> clock,
                                 suggestions |-> Suggestions(fetched, clock)]))
    /\ UNCHANGED <<db, tz_aware, now, task, timeblock, req, start, end, tasks, idx,
                   cursor, created_blocks>>

\* time passes
tick ==
    /\ \E t \in ClockValues :
          /\ t > now
          /\ now' = t
    /\ UNCHANGED <<db, tz_aware, task, timeblock, pc, op, req, start, end, tasks, idx,
                   cursor, created_blocks, resp>>

Serve(S) ==
    \/ \E p \in S, in \in TaskInputs : create_task(p, in)
    \/ \E p \in S, rs \in StartInputs, re \in EndInputs :
          auto_schedule_begin(p, rs, re)
    \/ \E p \in S : auto_schedule_step(p)
    \/ \E p \in S : auto_schedule_insert_fails(p)
    \/ \E p \in S : recommend_next(p)
    \/ tick

\* one request
Next == Serve(Single)
Spec == Init /\ [][Next]_vars

\* two requests, one after the other or interleaved
NextConc == Serve(Procs)
SpecConc == InitConc /\ [][NextConc]_vars

\* the recommender alone, over larger collections
NextRec == (\E p \in Single : recommend_next(p)) \/ tick
SpecRec == InitRec /\ [][NextRec]_vars

----------------------------------------------------------------------------
(* Vocabulary of the properties *)

\* request p was served by auto_schedule, which returned its blocks
Returned(p) ==
    /\ op[p] = "auto_schedule" /\ pc[p] = "done"
    /\ Val(resp[p]).kind = "ok"

\* the stored task documents with a given title (the pool gives every title one
\* priority, deadline, estimate and status)
StoredByTitle(title) == { i \in 1..Len(task) : task[i].title = title }
DocOf(title) == task[CHOOSE i \in StoredByTitle(title) : TRUE]

\* the block came from a stored task
FromStored(b) == StoredByTitle(b.title) # {}

\* position in the store of the task with the identifier id
PosOf(id) == CHOOSE i \in 1..Len(task) : Some(Str(task[i]["_id"])) = id

EstimatesInRange ==
    \A i \in 1..Len(task) :
        task[i].estimate_minutes >= 5 /\ task[i].estimate_minutes <= 480

----------------------------------------------------------------------------
\* C1: when every stored estimate is within [5, 480], the blocks auto_schedule
\* creates are strictly ordered and pairwise non-overlapping, and each block starts
\* exactly 5 minutes after the block before it ends.
C1_BlocksChained ==
    \A p \in Procs :
        EstimatesInRange =>
            LET cb == created_blocks[p]
            IN /\ \A k \in 1..(Len(cb) - 1) : cb[k]["end"].t + 5 = cb[k + 1].start.t
               /\ \A j, k \in 1..Len(cb) :
                     j < k => /\ cb[j].start.t < cb[k].start.t
                              /\ cb[j]["end"].t <= cb[k].start.t

\* a call has returned three chained blocks
C1_Witness ==
    \E p \in Procs :
        /\ Returned(p) /\ EstimatesInRange
        /\ Len(Val(resp[p]).body) = 3

----------------------------------------------------------------------------
\* the end of the window as the interface states it: the requested end, or the
\* window start plus 8 hours
WindowEnd(p) ==
    IF IsNone(Val(req[p])["end"]) THEN Val(start[p]).t + 8 * 60
    ELSE Val(Val(req[p])["end"]).t

\* the window start: the requested start, or the clock
WindowStartGiven(p) == ~IsNone(Val(req[p]).start) => Val(start[p]) = Val(Val(req[p]).start)

\* the persisted documents are the blocks the calls created
PersistedBy(j) ==
    { p \in Procs : \E k \in 1..Len(created_blocks[p]) :
                        created_blocks[p][k].id = Str(timeblock[j]["_id"]) }

\* C2: no block auto_schedule creates, returned or persisted, ends after the end of
\* the window (the requested end, or the window start plus 8 hours), whatever tasks
\* are stored.
C2_WithinWindow ==
    /\ \A p \in Procs :
          \A k \in 1..Len(created_blocks[p]) :
              /\ WindowStartGiven(p)
              /\ created_blocks[p][k]["end"].t <= WindowEnd(p)
    /\ \A j \in 1..Len(timeblock) :
          /\ PersistedBy(j) # {}
          /\ \A p \in PersistedBy(j) : timeblock[j]["end"].t <= WindowEnd(p)

\* a call over the default window stopped short of a stored task that does not fit,
\* having created a block
C2_Witness ==
    \E p \in Procs :
        /\ Returned(p)
        /\ IsNone(Val(req[p])["end"])
        /\ Len(Val(resp[p]).body) >= 1
        /\ Len(Val(resp[p]).body) < Len(tasks[p])
        /\ Len(timeblock) >= 1

----------------------------------------------------------------------------
\* the identifiers of the stored tasks whose status is "done"
DoneIds == { Some(Str(task[i]["_id"])) : i \in { n \in 1..Len(task) : task[n].status = "done" } }

\* the titles only "done" tasks carry
DoneTitles == { task[i].title : i \in { n \in 1..Len(task) : task[n].status = "done" } }

\* C3: a task whose status is "done" is never considered: auto_schedule neither
\* fetches it nor creates a block for it, and recommend_next never suggests it.
C3_DoneNeverConsidered ==
    /\ \A p \in Procs :
          /\ \A i \in 1..Len(tasks[p]) : Get(tasks[p][i], "id") \notin DoneIds
          /\ \A k \in 1..Len(created_blocks[p]) :
                created_blocks[p][k].title \notin DoneTitles
          /\ (op[p] = "recommend_next" /\ Val(resp[p]).kind = "ok") =>
                \A k \in 1..Len(Val(resp[p]).body.suggestions) :
                    Val(resp[p]).body.suggestions[k].task.id \notin DoneIds
    /\ \A j \in 1..Len(timeblock) : timeblock[j].title \notin DoneTitles

\* with a "done" task stored, one request got blocks and the other suggestions
C3_Witness ==
    /\ DoneIds # {}
    /\ \E p, q \in Procs :
          /\ Returned(p) /\ Len(Val(resp[p]).body) >= 1
          /\ op[q] = "recommend_next" /\ Val(resp[q]).kind = "ok"
          /\ Len(Val(resp[q]).body.suggestions) >= 1

----------------------------------------------------------------------------
\* the composite key as the interface states it, on stored documents
KeyRank(d) ==
    CASE d.priority = "urgent" -> 0
      [] d.priority = "high"   -> 1
      [] d.priority = "medium" -> 2
      [] d.priority = "low"    -> 3
      [] OTHER                 -> 2

DeadlineBefore(a, b) ==
    /\ ~IsNone(a.deadline)
    /\ IsNone(b.deadline) \/ Val(a.deadline) < Val(b.deadline)

KeyLeq(a, b) ==
    \/ KeyRank(a) < KeyRank(b)
    \/ /\ KeyRank(a) = KeyRank(b)
       /\ \/ DeadlineBefore(a, b)
          \/ /\ a.deadline = b.deadline
             /\ a.estimate_minutes <= b.estimate_minutes

BlockTitles(p) == { created_blocks[p][k].title : k \in 1..Len(created_blocks[p]) }

\* C4: the blocks auto_schedule creates follow the stored tasks in ascending order
\* of the key (priority rank, deadline with an absent deadline last, estimate),
\* whatever the order of the store: consecutive blocks are in key order, and no
\* pending task left without a block has a key below that of a task that got one.
C4_BlocksInKeyOrder ==
    \A p \in Procs :
        LET cb == created_blocks[p]
        IN /\ \A k \in 1..Len(cb) : FromStored(cb[k])
           /\ \A k \in 1..(Len(cb) - 1) : KeyLeq(DocOf(cb[k].title), DocOf(cb[k + 1].title))
           /\ \A i \in 1..Len(task) :
                 (task[i].status # "done" /\ task[i].title \notin BlockTitles(p)) =>
                     \A k \in 1..Len(cb) : KeyLeq(DocOf(cb[k].title), task[i])

\* three tasks stored in descending key order came back in ascending key order
C4_Witness ==
    \E p \in Procs :
        /\ Returned(p) /\ Len(Val(resp[p]).body) = 3 /\ Len(task) = 3
        /\ Val(resp[p]).body[1].title = task[3].title
        /\ Val(resp[p]).body[2].title = task[2].title
        /\ Val(resp[p]).body[3].title = task[1].title
        /\ ~KeyLeq(task[1], task[2]) /\ ~KeyLeq(task[2], task[3])

----------------------------------------------------------------------------
\* the cursor after the first n blocks of request p
CursorAfter(p, n) ==
    IF n = 0 THEN Val(start[p]).t ELSE created_blocks[p][n]["end"].t + 5

\* C5: auto_schedule stops at the first task, in sorted order, whose block would
\* end after the end of the window: the blocks are those of a prefix of the sorted
\* list, and a call that returns fewer blocks than tasks stopped at a task that
\* does not fit, whether or not a later one would.
C5_StopsAtFirstMisfit ==
    \A p \in Procs :
        LET cb == created_blocks[p]
            n  == Len(cb)
        IN /\ n <= Len(tasks[p])
           /\ \A k \in 1..n :
                 /\ cb[k].title = tasks[p][k].title
                 /\ cb[k]["end"].t - cb[k].start.t = tasks[p][k].estimate_minutes
                 /\ cb[k].start.t = CursorAfter(p, k - 1)
           /\ (Returned(p) /\ n < Len(tasks[p])) =>
                 CursorAfter(p, n) + tasks[p][n + 1].estimate_minutes > WindowEnd(p)
           /\ Returned(p) => Cardinality({ j \in 1..Len(timeblock) : p \in PersistedBy(j) }) = n

\* a call stopped after one block at a task that does not fit, with a shorter task
\* behind it that would have fitted
C5_Witness ==
    \E p \in Procs :
        /\ Returned(p)
        /\ Len(created_blocks[p]) = 1
        /\ Len(tasks[p]) = 3
        /\ CursorAfter(p, 1) + tasks[p][3].estimate_minutes <= WindowEnd(p)
        /\ tasks[p][3].estimate_minutes > 0

----------------------------------------------------------------------------
\* C6: with the record store unavailable, auto_schedule fails at once with the
\* error "Database not available" and writes nothing: the timeblock collection
\* stays as it was and no block is created.
C6_UnavailableFailsWithoutWrites ==
    ~db =>
        /\ timeblock = <<>>
        /\ \A p \in Procs :
              op[p] = "auto_schedule" =>
                  /\ pc[p] = "done"
                  /\ Val(resp[p]).kind = "HTTPException"
                  /\ Val(resp[p]).status_code = 500
                  /\ Val(resp[p]).detail = "Database not available"
                  /\ created_blocks[p] = <<>>

\* the store is unavailable and a call that had pending tasks to schedule failed
C6_Witness ==
    /\ ~db
    /\ \E i \in 1..Len(task) : task[i].status # "done"
    /\ \E p \in Procs : op[p] = "auto_schedule" /\ pc[p] = "done"

----------------------------------------------------------------------------
\* request p ended inside the loop at a task whose block fits the window: the
\* insert of that block failed
InsertFailed(p) ==
    /\ op[p] = "auto_schedule" /\ pc[p] = "done"
    /\ idx[p] >= 1 /\ idx[p] <= Len(tasks[p])
    /\ Val(cursor[p]).aware = Val(end[p]).aware
    /\ Val(cursor[p]).t + tasks[p][idx[p]].estimate_minutes <= Val(end[p]).t

\* block b is in the timeblock collection under its identifier
Committed(b) ==
    \E j \in 1..Len(timeblock) :
        /\ Str(timeblock[j]["_id"]) = b.id
        /\ timeblock[j].title = b.title
        /\ timeblock[j].start = b.start
        /\ timeblock[j]["end"] = b["end"]

\* C7: when an insert fails inside auto_schedule's loop, the blocks inserted
\* earlier in the call stay in the store, and the call fails: it returns no blocks.
C7_NoRollback ==
    \A p \in Procs :
        InsertFailed(p) =>
            /\ Val(resp[p]).kind = "raise"
            /\ \A k \in 1..Len(created_blocks[p]) : Committed(created_blocks[p][k])
            /\ Len(created_blocks[p]) = idx[p] - 1

\* the third insert of a call failed after two blocks were stored
C7_Witness ==
    \E p \in Procs :
        /\ InsertFailed(p)
        /\ Len(created_blocks[p]) = 2
        /\ Len(timeblock) = 2

----------------------------------------------------------------------------
SameBlock(a, b) ==
    /\ a.task_id = b.task_id /\ a.title = b.title
    /\ a.start = b.start /\ a["end"] = b["end"]

\* C8: auto_schedule neither locks nor deduplicates: every block a call creates is
\* stored under an identifier of its own, so two calls with the same window over
\* the same pending tasks, one after the other or interleaved, each store a block
\* for the same task and the same interval.
C8_NoDedup ==
    /\ \A p \in Procs : \A k \in 1..Len(created_blocks[p]) :
          Committed(created_blocks[p][k])
    /\ \A p, q \in Procs :
          (p # q /\ Returned(p) /\ Returned(q)
             /\ start[p] = start[q] /\ end[p] = end[q] /\ tasks[p] = tasks[q]) =>
              /\ Len(created_blocks[p]) = Len(created_blocks[q])
              /\ \A k \in 1..Len(created_blocks[p]) :
                    /\ SameBlock(created_blocks[p][k], created_blocks[q][k])
                    /\ created_blocks[p][k].id # created_blocks[q][k].id
              /\ Len(timeblock) = 2 * Len(created_blocks[p])

\* two interleaved calls with the same window left the store with two blocks for
\* each of two tasks, the copies covering the same interval
C8_Witness ==
    \E p, q \in Procs :
        /\ p # q /\ Returned(p) /\ Returned(q)
        /\ start[p] = start[q] /\ end[p] = end[q] /\ tasks[p] = tasks[q]
        /\ Len(timeblock) = 4
        /\ timeblock[1].title = timeblock[2].title
        /\ timeblock[1].start = timeblock[2].start
        /\ timeblock[1]["end"] = timeblock[2]["end"]
        /\ PersistedBy(1) = {p} /\ PersistedBy(2) = {q} /\ PersistedBy(3) = {p}

----------------------------------------------------------------------------
\* the positions of the stored tasks that are not done
Eligible == { i \in 1..Len(task) : task[i].status # "done" }

Suggested(p) == Val(resp[p]).body.suggestions

\* the score of the stored task at position i, at the clock of request p
ScoreAt(i, p) == Score(FromStore(task[i], tz_aware), Val(resp[p]).body.now)

\* C9: recommend_next returns at most 3 suggestions (3, or all the pending tasks if
\* fewer), in descending order of score; suggestions of equal score keep the order
\* of the store; a pending task left out scores no higher than any returned one,
\* and one that scores the same comes later in the store.
C9_TopThree ==
    \A p \in Procs :
        (db /\ op[p] = "recommend_next" /\ Val(resp[p]).kind = "ok") =>
            LET S == Suggested(p)
                ids == { S[k].task.id : k \in 1..Len(S) }
            IN /\ Len(S) <= 3
               /\ Len(S) = (IF Cardinality(Eligible) < 3 THEN Cardinality(Eligible) ELSE 3)
               /\ Cardinality(ids) = Len(S)
               /\ \A k \in 1..Len(S) :
                     /\ \E i \in Eligible : Some(Str(task[i]["_id"])) = S[k].task.id
                     /\ S[k].score = ScoreAt(PosOf(S[k].task.id), p)
               /\ \A j, k \in 1..Len(S) :
                     j < k => /\ S[j].score >= S[k].score
                              /\ S[j].score = S[k].score =>
                                    PosOf(S[j].task.id) < PosOf(S[k].task.id)
               /\ \A i \in Eligible :
                     Some(Str(task[i]["_id"])) \notin ids =>
                         \A k \in 1..Len(S) :
                             \/ ScoreAt(i, p) < S[k].score
                             \/ /\ ScoreAt(i, p) = S[k].score
                                /\ PosOf(S[k].task.id) < i

\* four pending tasks, three suggestions; two suggestions tie, and a task left out
\* ties with the last suggestion
C9_Witness ==
    \E p \in Procs :
        /\ db /\ op[p] = "recommend_next" /\ Val(resp[p]).kind = "ok"
        /\ Cardinality(Eligible) >= 4
        /\ Len(Suggested(p)) = 3
        /\ Suggested(p)[1].score > Suggested(p)[2].score
        /\ Suggested(p)[2].score = Suggested(p)[3].score
        /\ \E i \in Eligible :
              /\ \A k \in 1..3 : Some(Str(task[i]["_id"])) # Suggested(p)[k].task.id
              /\ ScoreAt(i, p) = Suggested(p)[3].score

----------------------------------------------------------------------------
\* C10: every block auto_schedule creates is linked to its source task: its
\* task_id is the id of the task it was made from.
C10_BlocksLinked ==
    \A p \in Procs :
        \A k \in 1..Len(created_blocks[p]) :
            /\ ~IsNone(created_blocks[p][k].task_id)
            /\ created_blocks[p][k].task_id = Get(tasks[p][k], "id")

====
